---- MODULE Spec2Model ----
(***************************************************************************)
(* Model of the two notebooks of the repository: the advanced filtering    *)
(* notebook (boolean masks, .loc, .isin, .where/.mask) and the groupby     *)
(* notebook (.agg, .transform, .filter).  The notebooks' cells call the    *)
(* tabular library on a DataFrame df; each operator below models the       *)
(* library call a cell makes, as the library computes it, and each action  *)
(* models one cell (or one expression of a cell) evaluated on df.          *)
(***************************************************************************)
EXTENDS Integers, Sequences, FiniteSets, TLC

VARIABLES nb, df, columns, out

vars == <<nb, df, columns, out>>

(* Largest number of rows of a generated table. *)
MaxRows == 3

(***************************************************************************)
(* Scalar values: numbers (kept as exact fractions n/d), strings, and the  *)
(* missing value NaN.                                                      *)
(***************************************************************************)
Num(x) == [k |-> "num", n |-> x, d |-> 1, s |-> ""]

Str(x) == [k |-> "str", n |-> 0, d |-> 1, s |-> x]

NaN == [k |-> "nan", n |-> 0, d |-> 1, s |-> ""]

IsNa(v) == v.k = "nan"

(* Strings used by the notebooks, in Python's str ordering. *)
StrOrder == <<"A", "B", "C", "Canada", "Excellent", "Needs Improvement",
              "North", "South", "UK", "USA", "West">>

StrRank(x) == CHOOSE i \in 1..Len(StrOrder) : StrOrder[i] = x

(* a < b for two non-missing values of the same kind. *)
Less(a, b) ==
    IF a.k = "str" THEN StrRank(a.s) < StrRank(b.s)
    ELSE a.n * b.d < b.n * a.d

(***************************************************************************)
(* Tables.  A table is a sequence of rows; a row carries its index label   *)
(* and a value for every column.  Frame(rs) is pd.DataFrame(data): the     *)
(* rows get the labels 0, 1, 2, ...                                        *)
(***************************************************************************)
Frame(rs) == [i \in 1..Len(rs) |-> [idx |-> i - 1, val |-> rs[i]]]

FilterCols == <<"age", "country", "score">>

FilterRow(a, c, s) == [age |-> a, country |-> c, score |-> s]

(* The table of the filtering notebook. *)
FilterData ==
    Frame(<<FilterRow(Num(25), Str("USA"), Num(80)),
            FilterRow(Num(30), Str("Canada"), Num(90)),
            FilterRow(Num(35), Str("USA"), Num(85)),
            FilterRow(Num(40), Str("UK"), Num(95)),
            FilterRow(Num(45), Str("Canada"), Num(90))>>)

GroupCols == <<"Region", "Product", "Sales">>

GroupRow(r, p, s) == [Region |-> r, Product |-> p, Sales |-> s]

(* The table of the groupby notebook. *)
GroupData ==
    Frame(<<GroupRow(Str("North"), Str("A"), Num(100)),
            GroupRow(Str("North"), Str("B"), Num(150)),
            GroupRow(Str("South"), Str("A"), Num(200)),
            GroupRow(Str("South"), Str("C"), Num(50)),
            GroupRow(Str("West"), Str("B"), Num(300)),
            GroupRow(Str("West"), Str("C"), Num(250))>>)

(* Column projection df[c]: one value per row. *)
Column(T, c) == [i \in 1..Len(T) |-> T[i].val[c]]

(***************************************************************************)
(* Masks: comparison, membership, isna, and the combinators &, |, ~.       *)
(***************************************************************************)
CmpOps == {"gt", "lt", "eq", "ge", "le", "ne"}

(* One elementwise comparison: a missing operand makes every comparison   *)
(* False except !=, which is True.                                         *)
CmpValues(op, a, b) ==
    IF IsNa(a) \/ IsNa(b) THEN op = "ne"
    ELSE CASE op = "eq" -> a = b
           [] op = "ne" -> a # b
           [] op = "gt" -> Less(b, a)
           [] op = "lt" -> Less(a, b)
           [] op = "ge" -> ~Less(a, b)
           [] op = "le" -> ~Less(b, a)

(* CompareScalar losing the first entry. *)
CompareScalarShort(c, op, v) ==
    [i \in 1..(Len(c) - 1) |-> CmpValues(op, c[i + 1], v)]

(* Series op scalar, e.g. df['age'] > 30. *)
CompareScalar(c, op, v) == [i \in 1..Len(c) |-> CmpValues(op, c[i], v)]

(* Series op Series of the same index. *)
CompareColumn(c, op, c2) == [i \in 1..Len(c) |-> CmpValues(op, c[i], c2[i])]

(* Series.isna() *)
IsnaMask(c) == [i \in 1..Len(c) |-> IsNa(c[i])]

(* ~mask *)
Not(m) == [i \in 1..Len(m) |-> ~m[i]]

Max(a, b) == IF a >= b THEN a ELSE b

(* LogicalOp cut to the shorter operand. *)
LogicalOpTruncates(op, left, right) ==
    [i \in 1..(IF Len(left) <= Len(right) THEN Len(left) ELSE Len(right)) |->
        IF op = "and" THEN left[i] /\ right[i] ELSE left[i] \/ right[i]]

(* left & right, left | right on two boolean Series with the labels       *)
(* 0..len-1.  The operands are aligned on the union of their labels; a    *)
(* label missing on the left gives False, a label missing on the right is *)
(* filled with False before the operator is applied.  No error is raised. *)
LogicalOp(op, left, right) ==
    [i \in 1..Max(Len(left), Len(right)) |->
        IF i > Len(left) THEN FALSE
        ELSE LET r == IF i > Len(right) THEN FALSE ELSE right[i]
             IN  IF op = "and" THEN left[i] /\ r ELSE left[i] \/ r]

(* Isin where a missing entry never matches. *)
IsinNeverMissing(c, S) == [i \in 1..Len(c) |-> c[i] \in S /\ ~IsNa(c[i])]

(* Series.isin(values): True where the value is one of the candidates;   *)
(* a missing entry matches a missing candidate.                           *)
Isin(c, S) == [i \in 1..Len(c) |-> c[i] \in S]

(***************************************************************************)
(* Row selection df.loc[mask] for a mask with df's labels: the rows whose  *)
(* mask entry is True, scanned in order.                                   *)
(***************************************************************************)
RECURSIVE SelectFrom(_, _, _)
SelectFrom(T, m, i) ==
    IF i > Len(T) THEN <<>>
    ELSE IF m[i] THEN <<T[i]>> \o SelectFrom(T, m, i + 1)
         ELSE SelectFrom(T, m, i + 1)

(* Select with the first row never looked at. *)
SelectSkipsFirst(T, m) == SelectFrom(T, m, 2)

Select(T, m) == SelectFrom(T, m, 1)

(***************************************************************************)
(* Conditional replacement.                                                *)
(***************************************************************************)
(* Series.where(cond, other): keep where cond is True, else other. *)
Where(c, m, r) == [i \in 1..Len(c) |-> IF m[i] THEN c[i] ELSE r]

(* MaskOp without the inversion of the condition. *)
MaskOpNotInverted(c, m, r) == Where(c, m, r)

(* Series.mask(cond, other) is where(~cond, other). *)
MaskOp(c, m, r) == Where(c, Not(m), r)

(***************************************************************************)
(* Column assignment df[name] = column: replaces the column when it        *)
(* exists, appends it after the existing columns otherwise.                *)
(***************************************************************************)
InSeq(x, sq) == \E i \in 1..Len(sq) : sq[i] = x

AssignNames(cs, name) == IF InSeq(name, cs) THEN cs ELSE Append(cs, name)

(* AssignRows losing the last row of the table. *)
AssignRowsDropsLast(T, name, c) ==
    [i \in 1..(Len(T) - 1) |->
        [idx |-> T[i].idx,
         val |-> [x \in (DOMAIN T[i].val) \cup {name} |->
                     IF x = name THEN c[i] ELSE T[i].val[x]]]]


AssignRows(T, name, c) ==
    [i \in 1..Len(T) |->
        [idx |-> T[i].idx,
         val |-> [x \in (DOMAIN T[i].val) \cup {name} |->
                     IF x = name THEN c[i] ELSE T[i].val[x]]]]

(***************************************************************************)
(* Arithmetic on columns: missing propagates, division is exact.           *)
(***************************************************************************)
Abs(x) == IF x < 0 THEN -x ELSE x

RECURSIVE GCD(_, _)
GCD(a, b) == IF b = 0 THEN a ELSE GCD(b, a % b)

Frac(n, d) ==
    LET g == GCD(Abs(n), Abs(d))
        sg == IF d < 0 THEN -1 ELSE 1
    IN  [k |-> "num", n |-> sg * (n \div g), d |-> sg * (d \div g), s |-> ""]

(* x / 0 is +-inf, 0 / 0 is NaN; nothing raises. *)
Inf(sign) == [k |-> "inf", n |-> sign, d |-> 1, s |-> ""]

(* DivValues with integer (floor) division. *)
DivValuesTruncates(a, b) ==
    IF a.k # "num" \/ b.k # "num" THEN NaN
    ELSE IF b.n = 0
         THEN (IF a.n = 0 THEN NaN ELSE Inf(IF a.n > 0 THEN 1 ELSE -1))
         ELSE Frac((a.n * b.d) \div (a.d * b.n), 1)


DivValues(a, b) ==
    IF a.k # "num" \/ b.k # "num" THEN NaN
    ELSE IF b.n = 0
         THEN (IF a.n = 0 THEN NaN ELSE Inf(IF a.n > 0 THEN 1 ELSE -1))
         ELSE Frac(a.n * b.d, a.d * b.n)

MulValues(a, b) ==
    IF a.k # "num" \/ b.k # "num" THEN NaN
    ELSE Frac(a.n * b.n, a.d * b.d)

(* (df[x] / df[y]) * 100 *)
PctColumn(cx, cy) ==
    [i \in 1..Len(cx) |-> MulValues(DivValues(cx[i], cy[i]), Num(100))]

(***************************************************************************)
(* groupby(by): rows with a missing key value are dropped (dropna=True),   *)
(* the group keys are sorted (sort=True).                                  *)
(***************************************************************************)
KeyOf(T, i, by) == [j \in 1..Len(by) |-> T[i].val[by[j]]]

HasNaKey(key) == \E j \in 1..Len(key) : IsNa(key[j])

(* Lexicographic order on key tuples. *)
KeyLess(a, b) ==
    \E j \in 1..Len(a) :
        /\ Less(a[j], b[j])
        /\ \A l \in 1..(j - 1) : a[l] = b[l]

RECURSIVE SortKeys(_)
SortKeys(S) ==
    IF S = {} THEN <<>>
    ELSE LET m == CHOOSE x \in S : \A y \in S \ {x} : KeyLess(x, y)
         IN  <<m>> \o SortKeys(S \ {m})

(* The keys in the order their first rows appear. *)
RECURSIVE FirstSeenFrom(_, _, _, _)
FirstSeenFrom(T, by, i, seen) ==
    IF i > Len(T) THEN <<>>
    ELSE LET key == KeyOf(T, i, by)
         IN  IF HasNaKey(key) \/ key \in seen
             THEN FirstSeenFrom(T, by, i + 1, seen)
             ELSE <<key>> \o FirstSeenFrom(T, by, i + 1, seen \cup {key})

(* GroupKeys left in first-seen order (sort=False). *)
GroupKeysFirstSeen(T, by) == FirstSeenFrom(T, by, 1, {})


GroupKeys(T, by) ==
    SortKeys({KeyOf(T, i, by) : i \in 1..Len(T)}
                 \ {key \in {KeyOf(T, i, by) : i \in 1..Len(T)} : HasNaKey(key)})

(* Positions of the rows of one group, in row order. *)
RECURSIVE GroupRowsFrom(_, _, _, _)
GroupRowsFrom(T, by, key, i) ==
    IF i > Len(T) THEN <<>>
    ELSE IF KeyOf(T, i, by) = key
         THEN <<i>> \o GroupRowsFrom(T, by, key, i + 1)
         ELSE GroupRowsFrom(T, by, key, i + 1)

(* GroupRows with the first row never looked at. *)
GroupRowsSkipsFirst(T, by, key) == GroupRowsFrom(T, by, key, 2)

GroupRows(T, by, key) == GroupRowsFrom(T, by, key, 1)

(* groupby(by).groups: group key -> index labels of the group's rows. *)
Groups(T, by) ==
    LET keys == GroupKeys(T, by)
    IN  [g \in 1..Len(keys) |->
            [key |-> keys[g],
             index |-> LET rs == GroupRows(T, by, keys[g])
                       IN  [j \in 1..Len(rs) |-> T[rs[j]].idx]]]

(***************************************************************************)
(* Reductions.  'sum' and 'nunique' skip missing values.                   *)
(***************************************************************************)
RECURSIVE SumFrom(_, _)
SumFrom(vs, i) ==
    IF i > Len(vs) THEN 0
    ELSE (IF IsNa(vs[i]) THEN 0 ELSE vs[i].n) + SumFrom(vs, i + 1)

Reduce(f, vs) ==
    IF f = "sum" THEN Num(SumFrom(vs, 1))
    ELSE Num(Cardinality({vs[i] : i \in 1..Len(vs)} \ {NaN}))

(* GroupValues taking the column of the whole table. *)
GroupValuesAllRows(T, by, key, src) == [j \in 1..Len(T) |-> T[j].val[src]]

(* The values of column src on the rows of one group. *)
GroupValues(T, by, key, src) ==
    LET rs == GroupRows(T, by, key)
    IN  [j \in 1..Len(rs) |-> T[rs[j]].val[src]]

(* groupby(by).agg(name=(src, f), ...): one row per group key. *)
Agg(T, by, named) ==
    LET keys == GroupKeys(T, by)
    IN  [g \in 1..Len(keys) |->
            [key |-> keys[g],
             val |-> [x \in {named[a].name : a \in 1..Len(named)} |->
                        LET a == CHOOSE a \in 1..Len(named) : named[a].name = x
                        IN  Reduce(named[a].f,
                                   GroupValues(T, by, keys[g], named[a].src))]]]

(* Transform reducing each row on its own. *)
TransformPerRow(T, by, src, f) ==
    [i \in 1..Len(T) |->
        IF HasNaKey(KeyOf(T, i, by)) THEN NaN ELSE Reduce(f, <<T[i].val[src]>>)]

(* groupby(by)[src].transform(f): the group's reduced value on each row   *)
(* of the group, missing on the rows that are in no group.                *)
Transform(T, by, src, f) ==
    [i \in 1..Len(T) |->
        IF HasNaKey(KeyOf(T, i, by)) THEN NaN
        ELSE Reduce(f, GroupValues(T, by, KeyOf(T, i, by), src))]

(* GroupPasses with the operands of the comparison exchanged. *)
GroupPassesSwapped(T, by, key, src, f, op, v) ==
    CmpValues(op, v, Reduce(f, GroupValues(T, by, key, src)))

(* groupby(by).filter(lambda x: x[src].f() op v): the positions of the   *)
(* rows of the groups for which the function is True are collected,       *)
(* sorted, and taken from the table.                                      *)
GroupPasses(T, by, key, src, f, op, v) ==
    CmpValues(op, Reduce(f, GroupValues(T, by, key, src)), v)

(* GroupFilter testing each row instead of its group. *)
GroupFilterPerRow(T, by, src, f, op, v) ==
    Select(T, [i \in 1..Len(T) |->
                  /\ ~HasNaKey(KeyOf(T, i, by))
                  /\ CmpValues(op, Reduce(f, <<T[i].val[src]>>), v)])

GroupFilter(T, by, src, f, op, v) ==
    LET keys == GroupKeys(T, by)
        keep == UNION {{GroupRows(T, by, keys[g])[j] :
                            j \in 1..Len(GroupRows(T, by, keys[g]))} :
                       g \in {g \in 1..Len(keys) :
                                 GroupPasses(T, by, keys[g], src, f, op, v)}}
    IN  Select(T, [i \in 1..Len(T) |-> i \in keep])

(***************************************************************************)
(* Inputs: the tables the cells run on and the arguments they are given.   *)
(***************************************************************************)
SeqsUpTo(S, n) == UNION {[1..l -> S] : l \in 0..n}

FilterPool ==
    {FilterRow(Num(35), Str("USA"), Num(85)),
     FilterRow(Num(40), Str("UK"), Num(95)),
     FilterRow(NaN, Str("Canada"), Num(90)),
     FilterRow(Num(45), NaN, NaN)}

GroupPool ==
    {GroupRow(Str("North"), Str("A"), Num(100)),
     GroupRow(Str("West"), Str("B"), Num(300)),
     GroupRow(Str("North"), Str("B"), NaN),
     GroupRow(NaN, Str("C"), Num(250))}

FilterTables == {FilterData} \cup {Frame(rs) : rs \in SeqsUpTo(FilterPool, MaxRows)}

GroupTables == {GroupData} \cup {Frame(rs) : rs \in SeqsUpTo(GroupPool, MaxRows)}

MaskSet(n) == [1..n -> BOOLEAN]

AnyMask == UNION {MaskSet(n) : n \in 0..MaxRows}

(* Scalars a column of the filtering notebook is compared with. *)
Scalars(c) ==
    IF c = "country" THEN {Str("USA"), Str("Canada"), NaN}
    ELSE {Num(30), Num(90), NaN}

Candidates == {Str("USA"), Str("UK"), NaN}

Replacements == {Str("Needs Improvement"), Str("Excellent"), Num(85), NaN}

Bys == {<<"Region">>, <<"Product">>, <<"Region", "Product">>}

Thresholds == {Num(1), Num(300), NaN}

(* Total_Sales=('Sales', 'sum'), Unique_Products=('Product', 'nunique') *)
NamedAggs ==
    <<[name |-> "Total_Sales", src |-> "Sales", f |-> "sum"],
      [name |-> "Unique_Products", src |-> "Product", f |-> "nunique"]>>

None == [op |-> "none"]

Idle == out.op = "none"

Init ==
    /\ nb \in {"filter", "groupby"}
    /\ df \in IF nb = "filter" THEN FilterTables ELSE GroupTables
    /\ columns = IF nb = "filter" THEN FilterCols ELSE GroupCols
    /\ out = None

(***************************************************************************)
(* Filtering notebook: expressions.                                        *)
(***************************************************************************)
(* df[c] op v *)
CompareExpr(c, op, v) ==
    /\ nb = "filter" /\ Idle
    /\ out' = [op |-> "compare", col |-> c, cmp |-> op, v |-> v,
               res |-> CompareScalar(Column(df, c), op, v)]
    /\ UNCHANGED <<nb, df, columns>>

(* df[c1] op df[c2] *)
CompareColumnsExpr(c1, op, c2) ==
    /\ nb = "filter" /\ Idle
    /\ out' = [op |-> "comparecol", col |-> c1, cmp |-> op, col2 |-> c2,
               res |-> CompareColumn(Column(df, c1), op, Column(df, c2))]
    /\ UNCHANGED <<nb, df, columns>>

(* df[c].isin(S) *)
IsinExpr(c, S) ==
    /\ nb = "filter" /\ Idle
    /\ out' = [op |-> "isin", col |-> c, cand |-> S,
               res |-> Isin(Column(df, c), S)]
    /\ UNCHANGED <<nb, df, columns>>

(* ~m for a mask m over df *)
NotExpr(m) ==
    /\ nb = "filter" /\ Idle
    /\ out' = [op |-> "not", mask |-> m, res |-> Not(m)]
    /\ UNCHANGED <<nb, df, columns>>

(* left & right, left | right: left is a mask over df, right any mask *)
LogicalExpr(lop, left, right) ==
    /\ nb = "filter" /\ Idle
    /\ out' = [op |-> "logical", lop |-> lop, left |-> left, right |-> right,
               err |-> "none", res |-> LogicalOp(lop, left, right)]
    /\ UNCHANGED <<nb, df, columns>>

(* df.loc[m] for a mask m over df *)
SelectExpr(m) ==
    /\ nb = "filter" /\ Idle
    /\ out' = [op |-> "select", cell |-> "loc", mask |-> m, cols |-> columns,
               res |-> Select(df, m)]
    /\ UNCHANGED <<nb, df, columns>>

(* df[c].where(m, r) *)
WhereExpr(c, m, r) ==
    /\ nb = "filter" /\ Idle
    /\ out' = [op |-> "where", col |-> c, mask |-> m, other |-> r,
               res |-> Where(Column(df, c), m, r)]
    /\ UNCHANGED <<nb, df, columns>>

(* df[c].mask(m, r) *)
MaskExpr(c, m, r) ==
    /\ nb = "filter" /\ Idle
    /\ out' = [op |-> "mask", col |-> c, mask |-> m, other |-> r,
               res |-> MaskOp(Column(df, c), m, r)]
    /\ UNCHANGED <<nb, df, columns>>

(***************************************************************************)
(* Filtering notebook: the cells.                                          *)
(***************************************************************************)
(* df.loc[(df['age'] > 30) & (df['country'] == 'USA')] *)
BoolIndexMask(T) ==
    LogicalOp("and", CompareScalar(Column(T, "age"), "gt", Num(30)),
                     CompareScalar(Column(T, "country"), "eq", Str("USA")))

BoolIndexCell ==
    /\ nb = "filter" /\ Idle
    /\ out' = [op |-> "select", cell |-> "boolindex", mask |-> BoolIndexMask(df),
               cols |-> columns, res |-> Select(df, BoolIndexMask(df))]
    /\ UNCHANGED <<nb, df, columns>>

(* df.query('age > @age_threshold and country == @country_of_interest') *)
QueryMask(T) ==
    LogicalOp("and", CompareScalar(Column(T, "age"), "gt", Num(30)),
                     CompareScalar(Column(T, "country"), "eq", Str("Canada")))

QueryCell ==
    /\ nb = "filter" /\ Idle
    /\ out' = [op |-> "select", cell |-> "query", mask |-> QueryMask(df),
               cols |-> columns, res |-> Select(df, QueryMask(df))]
    /\ UNCHANGED <<nb, df, columns>>

(* df.loc[df['country'].isin(['USA', 'UK'])] *)
IsinCellMask(T) == Isin(Column(T, "country"), {Str("USA"), Str("UK")})

IsinCell ==
    /\ nb = "filter" /\ Idle
    /\ out' = [op |-> "select", cell |-> "isin", mask |-> IsinCellMask(df),
               cols |-> columns, res |-> Select(df, IsinCellMask(df))]
    /\ UNCHANGED <<nb, df, columns>>

(* df['performance'] = df['score'].where(df['score'] >= 90, ...)          *)
(* df['rating'] = df['score'].mask(df['score'] >= 90, 'Excellent')        *)
WhereCell ==
    /\ nb = "filter" /\ Idle
    /\ LET perf == Where(Column(df, "score"),
                         CompareScalar(Column(df, "score"), "ge", Num(90)),
                         Str("Needs Improvement"))
           df1 == AssignRows(df, "performance", perf)
           rating == MaskOp(Column(df1, "score"),
                            CompareScalar(Column(df1, "score"), "ge", Num(90)),
                            Str("Excellent"))
       IN  /\ df' = AssignRows(df1, "rating", rating)
           /\ columns' = AssignNames(AssignNames(columns, "performance"), "rating")
           /\ out' = [op |-> "print", cols |-> columns', res |-> df']
    /\ UNCHANGED nb

(* df.loc[(df['score'] > 90) | (df['score'].isna())] *)
NanCellMask(T) ==
    LogicalOp("or", CompareScalar(Column(T, "score"), "gt", Num(90)),
                    IsnaMask(Column(T, "score")))

NanCell ==
    /\ nb = "filter" /\ Idle
    /\ out' = [op |-> "select", cell |-> "nan", mask |-> NanCellMask(df),
               cols |-> columns, res |-> Select(df, NanCellMask(df))]
    /\ UNCHANGED <<nb, df, columns>>

(* Series.mean(): the mean of the values that are not missing, missing   *)
(* when there is none.                                                    *)
Mean(vs) ==
    LET cnt == Cardinality({i \in 1..Len(vs) : ~IsNa(vs[i])})
    IN  IF cnt = 0 THEN NaN ELSE Frac(SumFrom(vs, 1), cnt)

(* df[df.apply(lambda row: row['score'] > df['age'].mean(), axis=1)] *)
ApplyCellMask(T) ==
    [i \in 1..Len(T) |-> CmpValues("gt", T[i].val["score"], Mean(Column(T, "age")))]

ApplyCell ==
    /\ nb = "filter" /\ Idle
    /\ out' = [op |-> "select", cell |-> "apply", mask |-> ApplyCellMask(df),
               cols |-> columns, res |-> Select(df, ApplyCellMask(df))]
    /\ UNCHANGED <<nb, df, columns>>

(***************************************************************************)
(* Groupby notebook.                                                       *)
(***************************************************************************)
(* df.groupby(by): the partition of the rows into groups *)
GroupsExpr(by) ==
    /\ nb = "groupby" /\ Idle
    /\ out' = [op |-> "groups", by |-> by, res |-> Groups(df, by)]
    /\ UNCHANGED <<nb, df, columns>>

(* df.groupby(by).agg(Total_Sales=..., Unique_Products=...) *)
AggCell(by) ==
    /\ nb = "groupby" /\ Idle
    /\ out' = [op |-> "agg", by |-> by, named |-> NamedAggs,
               cols |-> [a \in 1..Len(NamedAggs) |-> NamedAggs[a].name],
               res |-> Agg(df, by, NamedAggs)]
    /\ UNCHANGED <<nb, df, columns>>

(* df.groupby(by)[src].transform(f) *)
TransformExpr(by, src, f) ==
    /\ nb = "groupby" /\ Idle
    /\ out' = [op |-> "transform", by |-> by, src |-> src, f |-> f,
               res |-> Transform(df, by, src, f)]
    /\ UNCHANGED <<nb, df, columns>>

(* df['Region_Total_Sales'] = df.groupby('Region')['Sales'].transform('sum') *)
(* df['Pct_of_Region_Sales'] = (df['Sales'] / df['Region_Total_Sales']) * 100 *)
TransformCell ==
    /\ nb = "groupby" /\ Idle
    /\ LET df1 == AssignRows(df, "Region_Total_Sales",
                             Transform(df, <<"Region">>, "Sales", "sum"))
           pct == PctColumn(Column(df1, "Sales"), Column(df1, "Region_Total_Sales"))
       IN  /\ df' = AssignRows(df1, "Pct_of_Region_Sales", pct)
           /\ columns' = AssignNames(AssignNames(columns, "Region_Total_Sales"),
                                     "Pct_of_Region_Sales")
           /\ out' = [op |-> "print", cols |-> columns', res |-> df']
    /\ UNCHANGED nb

(* df.groupby(by).filter(lambda x: x[src].f() op v) *)
FilterCell(by, src, f, op, v) ==
    /\ nb = "groupby" /\ Idle
    /\ out' = [op |-> "gfilter", by |-> by, src |-> src, f |-> f, cmp |-> op,
               v |-> v, cols |-> columns,
               res |-> GroupFilter(df, by, src, f, op, v)]
    /\ UNCHANGED <<nb, df, columns>>

(* The value a cell displayed is dropped; the next cell runs on df. *)
Discard ==
    /\ ~Idle
    /\ out' = None
    /\ UNCHANGED <<nb, df, columns>>

Next ==
    \/ Idle /\ \E c \in {"age", "country", "score"}, op \in CmpOps :
          \E v \in Scalars(c) : CompareExpr(c, op, v)
    \/ Idle /\ \E c1, c2 \in {"age", "score"}, op \in CmpOps :
          CompareColumnsExpr(c1, op, c2)
    \/ Idle /\ \E c \in {"country"}, S \in SUBSET Candidates : IsinExpr(c, S)
    \/ Idle /\ \E m \in MaskSet(Len(df)) : NotExpr(m)
    \/ Idle /\ Len(df) <= MaxRows
            /\ \E lop \in {"and", "or"}, left \in MaskSet(Len(df)), right \in AnyMask :
                  LogicalExpr(lop, left, right)
    \/ Idle /\ \E m \in MaskSet(Len(df)) : SelectExpr(m)
    \/ Idle /\ \E c \in {"score", "country"}, m \in MaskSet(Len(df)),
                  r \in Replacements : WhereExpr(c, m, r)
    \/ Idle /\ \E c \in {"score", "country"}, m \in MaskSet(Len(df)),
                  r \in Replacements : MaskExpr(c, m, r)
    \/ BoolIndexCell
    \/ QueryCell
    \/ IsinCell
    \/ WhereCell
    \/ ApplyCell
    \/ NanCell
    \/ Idle /\ \E by \in Bys : GroupsExpr(by)
    \/ Idle /\ \E by \in Bys : AggCell(by)
    \/ Idle /\ \E by \in Bys, f \in {"sum", "nunique"} : TransformExpr(by, "Sales", f)
    \/ TransformCell
    \/ Idle /\ \E by \in Bys, f \in {"sum", "nunique"}, op \in CmpOps,
                  v \in Thresholds : FilterCell(by, "Sales", f, op, v)
    \/ Discard

Spec == Init /\ [][Next]_vars

(***************************************************************************)
(* Properties.                                                             *)
(***************************************************************************)
(* Positions of df where a mask is True, and the number of them before i. *)
TruePositions(m) == {i \in 1..Len(m) : m[i]}

TrueBefore(m, i) == Cardinality({j \in TruePositions(m) : j < i})

(* C1: row selection by a mask of the table's length returns exactly the  *)
(* rows whose mask entry is true, in their original relative order, each   *)
(* with every column of the table; on the notebook's table the mask        *)
(* (age > 30) & (country == 'USA') keeps only the row (35, USA).           *)
C1_RowSelection ==
    out.op = "select" =>
        /\ Len(out.mask) = Len(df)
        /\ Len(out.res) = Cardinality(TruePositions(out.mask))
        /\ \A i \in TruePositions(out.mask) :
              out.res[TrueBefore(out.mask, i) + 1] = df[i]
        /\ out.cols = columns
        /\ \A k \in 1..Len(out.res) :
              DOMAIN out.res[k].val = {columns[j] : j \in 1..Len(columns)}
        /\ (out.cell = "boolindex" /\ df = FilterData) =>
              out.res = <<[idx |-> 2,
                           val |-> FilterRow(Num(35), Str("USA"), Num(85))]>>

C1_Witness ==
    /\ out.op = "select"
    /\ out.cell = "boolindex"
    /\ df = FilterData
    /\ Len(out.res) = 1

(* The operands of a comparison at position i. *)
ComparedLeft(i) == df[i].val[out.col]

ComparedRight(i) == IF out.op = "compare" THEN out.v ELSE df[i].val[out.col2]

(* C2: for each of the six comparison operators, != included, the mask is *)
(* false at every position where a compared value is missing.              *)
C2_MissingComparesFalse ==
    out.op \in {"compare", "comparecol"} =>
        \A i \in 1..Len(df) :
            (IsNa(ComparedLeft(i)) \/ IsNa(ComparedRight(i))) => ~out.res[i]

(* C3 as stated: combining masks of different lengths with AND or OR      *)
(* fails with a LengthMismatch error.                                      *)
C3_LengthMismatchRaised ==
    (out.op = "logical" /\ Len(out.left) # Len(out.right)) =>
        out.err = "LengthMismatch"

Min(a, b) == IF a <= b THEN a ELSE b

(* C3, amended: combining two masks with AND or OR raises no error for    *)
(* any lengths; the result has the length of the longer operand, is the   *)
(* positional AND/OR on the positions both operands have (on all of them   *)
(* when the lengths are equal), and AND is false on the other positions.   *)
C3_LogicalAligns ==
    out.op = "logical" =>
        /\ out.err = "none"
        /\ Len(out.res) = Max(Len(out.left), Len(out.right))
        /\ \A i \in 1..Min(Len(out.left), Len(out.right)) :
              out.res[i] = IF out.lop = "and" THEN out.left[i] /\ out.right[i]
                           ELSE out.left[i] \/ out.right[i]
        /\ out.lop = "and" =>
              \A i \in (Min(Len(out.left), Len(out.right)) + 1)..Len(out.res) :
                  ~out.res[i]

C3_Witness ==
    /\ out.op = "logical"
    /\ Len(out.left) = 2
    /\ Len(out.right) = 3
    /\ out.lop = "and"
    /\ out.res = <<TRUE, FALSE, FALSE>>

(* C4: where keeps the value where the mask is true and puts the          *)
(* replacement elsewhere, mask does the opposite; in the table the where   *)
(* cell printed, each row keeps score in exactly one of performance and    *)
(* rating and holds the replacement in the other.                          *)
C4_WhereMaskComplement ==
    /\ out.op = "where" =>
          /\ Len(out.res) = Len(df)
          /\ \A i \in 1..Len(df) :
                out.res[i] = IF out.mask[i] THEN df[i].val[out.col] ELSE out.other
    /\ out.op = "mask" =>
          /\ Len(out.res) = Len(df)
          /\ \A i \in 1..Len(df) :
                out.res[i] = IF out.mask[i] THEN out.other ELSE df[i].val[out.col]
    /\ (out.op = "print" /\ nb = "filter") =>
          \A i \in 1..Len(df) :
              LET keep == CmpValues("ge", df[i].val["score"], Num(90))
              IN  /\ df[i].val["performance"] =
                        IF keep THEN df[i].val["score"] ELSE Str("Needs Improvement")
                  /\ df[i].val["rating"] =
                        IF keep THEN Str("Excellent") ELSE df[i].val["score"]

C4_Witness ==
    /\ out.op = "mask"
    /\ Len(df) >= 2
    /\ \E i, j \in 1..Len(df) : out.mask[i] /\ ~out.mask[j]
    /\ \E i \in 1..Len(df) : out.res[i] # df[i].val[out.col]

(* The key of a row, the rows of df with a given key, and their values. *)
RowKey(row, by) == [j \in 1..Len(by) |-> row.val[by[j]]]

RowsWithKey(key, by) == SelectSeq(df, LAMBDA row : RowKey(row, by) = key)

ValuesWithKey(key, by, src) ==
    LET rs == RowsWithKey(key, by) IN [j \in 1..Len(rs) |-> rs[j].val[src]]

Keyed(i, by) == \A j \in 1..Len(by) : ~IsNa(df[i].val[by[j]])

InResult(i) == \E k \in 1..Len(out.res) : out.res[k] = df[i]

(* C5: a group filter keeps every row of a group whose predicate holds    *)
(* and no row of a group whose predicate does not, never part of a group, *)
(* and keeps the rows in their original order; sum(Sales) > 300 by Region *)
(* on the notebook's table keeps exactly the two West rows.               *)
C5_GroupFilterAllOrNothing ==
    out.op = "gfilter" =>
        /\ \A i, j \in 1..Len(df) :
              (Keyed(i, out.by) /\ RowKey(df[i], out.by) = RowKey(df[j], out.by))
                  => (InResult(i) <=> InResult(j))
        /\ \A i \in 1..Len(df) :
              Keyed(i, out.by) =>
                  (InResult(i) <=>
                      CmpValues(out.cmp,
                                Reduce(out.f, ValuesWithKey(RowKey(df[i], out.by),
                                                            out.by, out.src)),
                                out.v))
        /\ \A k \in 1..Len(out.res) : \E i \in 1..Len(df) : out.res[k] = df[i]
        /\ \A k, l \in 1..Len(out.res) : k < l => out.res[k].idx < out.res[l].idx
        /\ (df = GroupData /\ out.by = <<"Region">> /\ out.f = "sum"
                /\ out.cmp = "gt" /\ out.v = Num(300))
              => out.res = <<GroupData[5], GroupData[6]>>

C5_Witness ==
    /\ out.op = "gfilter"
    /\ df = GroupData
    /\ out.by = <<"Region">> /\ out.f = "sum" /\ out.cmp = "gt" /\ out.v = Num(300)
    /\ Len(out.res) = 2

(* The groups whose index list holds the label of row i. *)
GroupsOf(i) ==
    {g \in 1..Len(out.res) :
        \E j \in 1..Len(out.res[g].index) : out.res[g].index[j] = df[i].idx}

NoGroupEmpty == \A g \in 1..Len(out.res) : Len(out.res[g].index) > 0

(* C6 as stated: every row index is in exactly one group's index list,    *)
(* two rows are in the same group iff they are equal on all key columns,   *)
(* and no group is empty.                                                  *)
C6_PartitionCoversEveryRow ==
    out.op = "groups" =>
        /\ \A i \in 1..Len(df) : Cardinality(GroupsOf(i)) = 1
        /\ \A i, j \in 1..Len(df) :
              (GroupsOf(i) \cap GroupsOf(j) # {})
                  <=> (RowKey(df[i], out.by) = RowKey(df[j], out.by))
        /\ NoGroupEmpty

(* C6, amended: every row whose key values are all present is in exactly  *)
(* one group's index list and every row with a missing key value is in    *)
(* none; two rows with present keys are in the same group iff they are    *)
(* equal on all key columns; no group is empty.                            *)
C6_PartitionCoversKeyedRows ==
    out.op = "groups" =>
        /\ \A i \in 1..Len(df) :
              Cardinality(GroupsOf(i)) = IF Keyed(i, out.by) THEN 1 ELSE 0
        /\ \A i, j \in 1..Len(df) :
              (Keyed(i, out.by) /\ Keyed(j, out.by)) =>
                  ((GroupsOf(i) \cap GroupsOf(j) # {})
                      <=> (RowKey(df[i], out.by) = RowKey(df[j], out.by)))
        /\ NoGroupEmpty

C6_Witness ==
    /\ out.op = "groups"
    /\ out.by = <<"Region", "Product">>
    /\ Len(out.res) = 2
    /\ Len(df) = 3
    /\ \A i \in 1..Len(df) : Keyed(i, out.by)

(* C7 as stated: the transform output has one entry per row of the table  *)
(* and the entry of every row is f of the source values of the rows with  *)
(* that row's key.                                                         *)
C7_TransformEveryRow ==
    out.op = "transform" =>
        /\ Len(out.res) = Len(df)
        /\ \A i \in 1..Len(df) :
              out.res[i] = Reduce(out.f, ValuesWithKey(RowKey(df[i], out.by),
                                                       out.by, out.src))

(* C7, amended: the transform output has one entry per row of the table;  *)
(* the entry of a row whose key is present is f of the source values of   *)
(* the rows of its group, the entry of a row with a missing key value is   *)
(* missing; sum of Sales by Region on the notebook's table gives           *)
(* 250, 250, 250, 250, 550, 550.                                           *)
C7_TransformBroadcasts ==
    out.op = "transform" =>
        /\ Len(out.res) = Len(df)
        /\ \A i \in 1..Len(df) :
              out.res[i] =
                  IF Keyed(i, out.by)
                  THEN Reduce(out.f, ValuesWithKey(RowKey(df[i], out.by),
                                                   out.by, out.src))
                  ELSE NaN
        /\ (df = GroupData /\ out.by = <<"Region">> /\ out.f = "sum")
              => out.res = <<Num(250), Num(250), Num(250), Num(250),
                             Num(550), Num(550)>>

C7_Witness ==
    /\ out.op = "transform"
    /\ df = GroupData
    /\ out.by = <<"Region">> /\ out.f = "sum"
    /\ out.res[1] = Num(250) /\ out.res[6] = Num(550)

(* The distinct keys of df that have no missing value. *)
DistinctKeys(by) ==
    {RowKey(df[i], by) : i \in {i \in 1..Len(df) : Keyed(i, by)}}

AggRow(r, t, u) ==
    [key |-> <<Str(r)>>, val |-> [Total_Sales |-> Num(t), Unique_Products |-> Num(u)]]

(* C8: the aggregation has exactly one row per distinct group key, and    *)
(* each named column of a row is its reduction over that group's rows of   *)
(* its source column only; by Region the notebook's table gives            *)
(* Total_Sales 250, 250, 550 and Unique_Products 2, 2, 2.                  *)
C8_AggOneRowPerKey ==
    out.op = "agg" =>
        /\ Len(out.res) = Cardinality(DistinctKeys(out.by))
        /\ {out.res[g].key : g \in 1..Len(out.res)} = DistinctKeys(out.by)
        /\ \A g \in 1..Len(out.res), a \in 1..Len(out.named) :
              out.res[g].val[out.named[a].name] =
                  Reduce(out.named[a].f,
                         ValuesWithKey(out.res[g].key, out.by, out.named[a].src))
        /\ (df = GroupData /\ out.by = <<"Region">>)
              => out.res = <<AggRow("North", 250, 2), AggRow("South", 250, 2),
                             AggRow("West", 550, 2)>>

C8_Witness ==
    /\ out.op = "agg"
    /\ df = GroupData
    /\ out.by = <<"Region">>
    /\ Len(out.res) = 3

(* C9 as stated: isin(c, S) is true at i iff c[i] is in S, and that is    *)
(* the disjunction over the candidates s of c[i] == s.                     *)
C9_IsinIsDisjunction ==
    out.op = "isin" =>
        \A i \in 1..Len(df) :
            /\ out.res[i] <=> (df[i].val[out.col] \in out.cand)
            /\ out.res[i] <=>
                  (\E s \in out.cand :
                      CompareScalar(Column(df, out.col), "eq", s)[i])

(* C9, amended: isin(c, S) is true at i iff c[i] is in S (all false for   *)
(* an empty S); it equals the disjunction of the equality masks at every  *)
(* position except where c[i] is missing and S holds the missing value:   *)
(* there isin is true and every equality mask is false.  On the            *)
(* notebook's table isin(country, {USA, UK}) selects positions 0, 2, 3.    *)
C9_IsinMembership ==
    /\ out.op = "isin" =>
          \A i \in 1..Len(df) :
              LET anyEq == \E s \in out.cand :
                              CompareScalar(Column(df, out.col), "eq", s)[i]
              IN  /\ out.res[i] <=> (df[i].val[out.col] \in out.cand)
                  /\ IF IsNa(df[i].val[out.col]) /\ NaN \in out.cand
                     THEN out.res[i] /\ ~anyEq
                     ELSE out.res[i] <=> anyEq
    /\ (out.op = "select" /\ out.cell = "isin" /\ df = FilterData) =>
          /\ out.mask = <<TRUE, FALSE, TRUE, TRUE, FALSE>>
          /\ [k \in 1..Len(out.res) |-> out.res[k].idx] = <<0, 2, 3>>

C9_Witness ==
    /\ out.op = "isin"
    /\ out.cand = {Str("USA"), Str("UK")}
    /\ Len(df) = 3
    /\ out.res = <<TRUE, FALSE, TRUE>>

(* C10: every mask produced over df by a comparison, a membership test,   *)
(* a NOT, or an AND/OR of two masks of equal length has exactly one        *)
(* boolean per row of df, also when df has no rows.                        *)
C10_MaskLength ==
    /\ out.op \in {"compare", "comparecol", "isin", "not"} =>
          Len(out.res) = Len(df)
    /\ (out.op = "logical" /\ Len(out.left) = Len(out.right)) =>
          Len(out.res) = Len(df)
    /\ out.op = "select" => Len(out.mask) = Len(df)
    /\ out.op \in {"compare", "comparecol", "isin", "not", "logical"} =>
          \A i \in 1..Len(out.res) : out.res[i] \in BOOLEAN

C10_Witness ==
    /\ out.op = "compare"
    /\ Len(df) = 0
    /\ out.res = <<>>

(* columns is an initial part of cs. *)
IsPrefix(cs) ==
    /\ Len(columns) <= Len(cs)
    /\ \A j \in 1..Len(columns) : cs[j] = columns[j]

(* C11: every step leaves the row count, the row order and the names,     *)
(* order and values of the existing columns of df unchanged; the only      *)
(* change is a column appended after them, and a selection, mask, isin,    *)
(* where/mask, aggregation, transform or group-filter step changes         *)
(* nothing of df.                                                          *)
C11_OnlyColumnAppend ==
    [][/\ Len(df') = Len(df)
       /\ IsPrefix(columns')
       /\ \A i \in 1..Len(df) :
             /\ df'[i].idx = df[i].idx
             /\ \A j \in 1..Len(columns) :
                   df'[i].val[columns[j]] = df[i].val[columns[j]]
       /\ out'.op # "print" => (df' = df /\ columns' = columns)]_vars

C11_Witness ==
    /\ out.op = "print"
    /\ nb = "groupby"
    /\ columns = <<"Region", "Product", "Sales", "Region_Total_Sales",
                   "Pct_of_Region_Sales">>
    /\ Len(df) = 6
    /\ \A i \in 1..Len(df) :
          [c \in {"Region", "Product", "Sales"} |-> df[i].val[c]] = GroupData[i].val

(* The position of the first row of df with a key. *)
FirstRow(key, by) ==
    CHOOSE i \in 1..Len(df) :
        /\ RowKey(df[i], by) = key
        /\ \A j \in 1..(i - 1) : RowKey(df[j], by) # key

(* C12 as stated: the group keys of the partition and of the aggregation  *)
(* result are in first-seen order: one key is before another iff its      *)
(* first row is before the other's first row.                              *)
C12_KeysFirstSeen ==
    out.op \in {"groups", "agg"} =>
        \A g, h \in 1..Len(out.res) :
            (g < h) <=> (FirstRow(out.res[g].key, out.by)
                            < FirstRow(out.res[h].key, out.by))

(* C12, amended: the group keys of the partition and of the aggregation   *)
(* result are in ascending order of the key value (sorted by key, not      *)
(* first-seen): one key is before another iff it is the smaller; on the    *)
(* notebook's table this is North, South, West.                            *)
C12_KeysSorted ==
    out.op \in {"groups", "agg"} =>
        /\ \A g, h \in 1..Len(out.res) :
              (g < h) <=> KeyLess(out.res[g].key, out.res[h].key)
        /\ (df = GroupData /\ out.by = <<"Region">>) =>
              [g \in 1..Len(out.res) |-> out.res[g].key] =
                  <<(<<Str("North")>>), (<<Str("South")>>), (<<Str("West")>>)>>

C12_Witness ==
    /\ out.op = "agg"
    /\ out.by = <<"Region">>
    /\ Len(df) = 2
    /\ df[1].val["Region"] = Str("West")
    /\ df[2].val["Region"] = Str("North")
    /\ out.res[1].key = <<Str("North")>>
    /\ out.res[2].key = <<Str("West")>>

(* df is the notebook's table after the transform cell: the three        *)
(* original columns of GroupData and the two appended ones.               *)
AfterTransformCell ==
    /\ nb = "groupby"
    /\ columns = <<"Region", "Product", "Sales", "Region_Total_Sales",
                   "Pct_of_Region_Sales">>
    /\ Len(df) = Len(GroupData)
    /\ \A i \in 1..Len(df) :
          [c \in {"Region", "Product", "Sales"} |-> df[i].val[c]] = GroupData[i].val

(* C13: with the cells run in order, the group filter sum(Sales) > 300    *)
(* by Region returns the table with exactly the columns Region, Product,   *)
(* Sales and exactly the rows 4 (West, B, 300) and 5 (West, C, 250).       *)
C13_FilterOutputAsDocumented ==
    (/\ out.op = "gfilter"
     /\ AfterTransformCell
     /\ out.by = <<"Region">> /\ out.src = "Sales" /\ out.f = "sum"
     /\ out.cmp = "gt" /\ out.v = Num(300))
        => /\ out.cols = <<"Region", "Product", "Sales">>
           /\ out.res = <<[idx |-> 4,
                           val |-> GroupRow(Str("West"), Str("B"), Num(300))],
                          [idx |-> 5,
                           val |-> GroupRow(Str("West"), Str("C"), Num(250))]>>

ThresholdOps == {"gt", "ge", "lt", "le"}

====
